---- MODULE Spec2Model ----
(***************************************************************************)
(* rootio_patcher: the pip, npm and Maven remediation orchestrators, the   *)
(* npm lock parser, the Maven POM parser and the Root.io API client.       *)
(*                                                                         *)
(* Text is modelled as a sequence of tokens (a token is a string that the  *)
(* code never looks inside: "node_modules", "/", "${", a version, ...), so *)
(* prefix tests, trimming, splitting and formatting are computed, not      *)
(* assumed.                                                                *)
(***************************************************************************)
EXTENDS FiniteSets, Integers, Sequences, TLC

\* ------------------------------------------------------------------------
\* Bounds of the model (not program constants)
\* ------------------------------------------------------------------------
MaxPatches == 2
MaxPipPatches == 3
MaxLockEntries == 2
MaxPomBlocks == 2
MaxPathLen == 7

\* ------------------------------------------------------------------------
\* strings package, over token sequences
\* ------------------------------------------------------------------------
Range(s) == {s[i] : i \in 1..Len(s)}

HasPrefix(s, prefix) ==
    Len(s) >= Len(prefix) /\ SubSeq(s, 1, Len(prefix)) = prefix

HasSuffix(s, suffix) ==
    Len(s) >= Len(suffix) /\ SubSeq(s, Len(s) - Len(suffix) + 1, Len(s)) = suffix

TrimPrefix(s, prefix) ==
    IF HasPrefix(s, prefix) THEN SubSeq(s, Len(prefix) + 1, Len(s)) ELSE s

TrimSuffix(s, suffix) ==
    IF HasSuffix(s, suffix) THEN SubSeq(s, 1, Len(s) - Len(suffix)) ELSE s

\* strings.Index: position (1-based) of the first occurrence of sep, -1 if none
Index(s, sep) ==
    LET hits == {i \in 1..(Len(s) - Len(sep) + 1) : SubSeq(s, i, i + Len(sep) - 1) = sep}
    IN  IF hits = {} THEN -1 ELSE CHOOSE i \in hits : \A j \in hits : i <= j

RECURSIVE Split(_, _)
Split(s, sep) ==
    LET i == Index(s, sep)
    IN  IF i = -1 THEN <<s>>
        ELSE <<SubSeq(s, 1, i - 1)>> \o Split(SubSeq(s, i + Len(sep), Len(s)), sep)

\* strings.Replace(s, old, new, 1) where old and new are single tokens
ReplaceFirst(s, old, new) ==
    LET i == Index(s, <<old>>)
    IN  IF i = -1 THEN s ELSE [s EXCEPT ![i] = new]

\* strings.ToLower / strings.EqualFold on the tokens of the model
ToLowerToken(c) ==
    CASE c = "Pip" -> "pip"
      [] c = "PIP" -> "pip"
      [] OTHER -> c

ToLower(s) == [i \in 1..Len(s) |-> ToLowerToken(s[i])]

EqualFold(s, t) == ToLower(s) = ToLower(t)

\* all the orders in which a Go map with key set S can be iterated
Orders(S) ==
    {o \in [1..Cardinality(S) -> S] : \A i, j \in 1..Cardinality(S) : o[i] = o[j] => i = j}

\* all sequences over S of length at most n
SeqsUpTo(S, n) == UNION {[1..k -> S] : k \in 0..n}

EmptyFun == [x \in {} |-> x]

\* ------------------------------------------------------------------------
\* npm lock parser
\* ------------------------------------------------------------------------
NodeModulesPrefix == <<"node_modules", "/">>
NodeModulesInfix == <<"/", "node_modules", "/">>

extractPackageName(pkgPath) ==
    IF ~HasPrefix(pkgPath, NodeModulesPrefix) THEN pkgPath
    ELSE LET remainder == TrimPrefix(pkgPath, NodeModulesPrefix)
         IN  IF Index(remainder, NodeModulesInfix) # -1
             THEN LET parts == Split(remainder, NodeModulesInfix)
                  IN  parts[Len(parts)]
             ELSE remainder

\* A JSON field that is not in the document
Absent == "<absent>"

\* json.Unmarshal into PackageLockJSON: absent fields become zero values,
\* keys the struct does not declare are dropped
LockUnmarshal(content) ==
    [p \in DOMAIN content.packages |->
        LET e == content.packages[p]
        IN  [Version         |-> IF e.version = Absent THEN "" ELSE e.version,
             Resolved        |-> e.resolved,
             Dev             |-> e.dev,
             Dependencies    |-> e.dependencies,
             DevDependencies |-> e.devDependencies]]

\* json.MarshalIndent of PackageLockJSON: omitempty drops empty fields
LockMarshal(lockfile) ==
    [exists   |-> TRUE,
     ok       |-> TRUE,
     packages |-> [p \in DOMAIN lockfile |->
        LET e == lockfile[p]
        IN  [version         |-> IF e.Version = "" THEN Absent ELSE e.Version,
             resolved        |-> e.Resolved,
             dev             |-> e.Dev,
             dependencies    |-> e.Dependencies,
             devDependencies |-> e.DevDependencies,
             extra           |-> FALSE]]]

NoErr == <<>>

\* the entries the loop of Parse passes over: the root, an empty name, an
\* empty version, a name@version seen before
NpmParseSkips_EmptyVersionKept(pkgPath, name, version, key, seen) ==
    pkgPath = <<>> \/ name = <<>> \/ key \in seen

NpmParseSkips(pkgPath, name, version, key, seen) ==
    pkgPath = <<>> \/ name = <<>> \/ version = "" \/ key \in seen

\* the loop of Parse over lockfile.Packages, in the iteration order `order`
\* Parse: isDev := directDevDeps[name] || pkgData.Dev
NpmIsDev_MarkerOnly(name, directDevDeps, pkgData) == pkgData.Dev

NpmIsDev(name, directDevDeps, pkgData) == (name \in directDevDeps) \/ pkgData.Dev

RECURSIVE NpmParseLoop(_, _, _, _, _)
NpmParseLoop(lockfile, order, k, seen, packages) ==
    IF k > Len(order) THEN packages
    ELSE
      LET pkgPath == order[k]
          pkgData == lockfile[pkgPath]
          hasRoot == <<>> \in DOMAIN lockfile
          directDeps == IF hasRoot THEN lockfile[<<>>].Dependencies ELSE {}
          directDevDeps == IF hasRoot THEN lockfile[<<>>].DevDependencies ELSE {}
          name == extractPackageName(pkgPath)
          version == pkgData.Version
          key == name \o <<"@", version>>
      IN  IF NpmParseSkips(pkgPath, name, version, key, seen)
          THEN NpmParseLoop(lockfile, order, k + 1, seen, packages)
          ELSE NpmParseLoop(lockfile, order, k + 1, seen \cup {key},
                 Append(packages,
                   [Name    |-> name,
                    Version |-> version,
                    Direct  |-> (name \in directDeps) \/ (name \in directDevDeps),
                    Dev     |-> NpmIsDev(name, directDevDeps, pkgData)]))

parseYarnLock == [err |-> <<"yarn.lock parsing not yet implemented">>, packages |-> <<>>]

parsePnpmLock_EmptySuccess == [err |-> NoErr, packages |-> <<>>]

parsePnpmLock == [err |-> <<"pnpm-lock.yaml parsing not yet implemented">>, packages |-> <<>>]

\* NpmParser.Parse; filePath is the token sequence of the path, `order` the
\* order in which the Go map of packages is iterated
NpmParser_Parse(filePath, content, order) ==
    IF HasSuffix(filePath, <<"yarn.lock">>) THEN parseYarnLock
    ELSE IF HasSuffix(filePath, <<"pnpm-lock.yaml">>) THEN parsePnpmLock
    ELSE IF ~content.exists THEN [err |-> <<"failed to read file: ">>, packages |-> <<>>]
    ELSE IF ~content.ok THEN [err |-> <<"failed to parse JSON: ">>, packages |-> <<>>]
    ELSE [err |-> NoErr,
          packages |-> NpmParseLoop(LockUnmarshal(content), order, 1, {}, <<>>)]

\* the body of the loop of Update for one entry
NpmUpdateEntry_NoVersion(pkgPath, pkgData, updates) ==
    pkgData

NpmUpdateEntry(pkgPath, pkgData, updates) ==
    LET name == extractPackageName(pkgPath)
    IN  IF pkgPath # <<>> /\ name \in DOMAIN updates
        THEN LET newVersion == updates[name]
                 oldVersion == pkgData.Version
             IN  [pkgData EXCEPT
                    !.Version = newVersion,
                    !.Resolved = IF pkgData.Resolved # <<>> /\ oldVersion # ""
                                 THEN ReplaceFirst(pkgData.Resolved, oldVersion, newVersion)
                                 ELSE pkgData.Resolved]
        ELSE pkgData

\* NpmParser.Update: the new content, or an error
NpmParser_Update(content, updates) ==
    IF ~content.exists THEN [err |-> <<"failed to read file: ">>, content |-> content]
    ELSE IF ~content.ok THEN [err |-> <<"failed to parse JSON: ">>, content |-> content]
    ELSE LET lockfile == LockUnmarshal(content)
         IN  [err |-> NoErr,
              content |-> LockMarshal([p \in DOMAIN lockfile |->
                                         NpmUpdateEntry(p, lockfile[p], updates)])]

NpmParser_Validate(content) == content.ok

\* ------------------------------------------------------------------------
\* Maven POM parser
\*
\* A pom.xml is its raw text, kept as: the <properties> elements in file
\* order, the <dependency> blocks of the file in file order, and the other
\* elements with text content (in a profile, in a plugin configuration) in
\* file order.  A block
\* records the section it is in ("dependencies" directly under <project>,
\* or "dependencyManagement"), and its layout: "gav" when its children
\* start with groupId, artifactId, version separated only by whitespace,
\* "other" for any other arrangement of the same children.  root is the
\* name of the first element of the text ("" when the text has no element),
\* ok tells that this element is closed and the tags inside it match, and
\* trailer is the text after its end tag.
\* ------------------------------------------------------------------------

\* xml.Unmarshal into Project succeeds: the first element of the text is
\* <project> (Project.XMLName) and the text is well-formed up to the end
\* tag of that element; the decoder stops there and never reads the trailer
WellFormed(content) ==
    /\ content.ok
    /\ content.root = "project"
    /\ \A i \in 1..Len(content.properties) : "<" \notin Range(content.properties[i].value)
    /\ \A i \in 1..Len(content.blocks) : "<" \notin Range(content.blocks[i].version)
    /\ \A i \in 1..Len(content.others) : "<" \notin Range(content.others[i].value)

InProjectDependencies(b) == b.section = "dependencies"

\* Properties.UnmarshalXML: element name -> text, a later element overwrites
PropertiesUnmarshalXML(properties) ==
    [n \in {<<properties[i].name>> : i \in 1..Len(properties)} |->
        LET last == CHOOSE i \in 1..Len(properties) :
                       /\ <<properties[i].name>> = n
                       /\ \A j \in 1..Len(properties) : <<properties[j].name>> = n => j <= i
        IN  properties[last].value]

\* xml.Unmarshal into Project
PomUnmarshal(content) ==
    [Properties   |-> PropertiesUnmarshalXML(content.properties),
     Dependencies |-> LET ds == SelectSeq(content.blocks, InProjectDependencies)
                      IN  [i \in 1..Len(ds) |->
                             [GroupID    |-> ds[i].groupId,
                              ArtifactID |-> ds[i].artifactId,
                              Version    |-> ds[i].version,
                              Scope      |-> ds[i].scope]]]

resolveProperty(value, properties) ==
    IF value = <<>> \/ ~HasPrefix(value, <<"${">>) THEN value
    ELSE LET propName == TrimSuffix(TrimPrefix(value, <<"${">>), <<"}">>)
         IN  IF propName \in DOMAIN properties THEN properties[propName] ELSE value

\* fmt.Sprintf("%s:%s", groupId, artifactId)
MavenName(groupID, artifactID) == groupID \o <<":">> \o artifactID

RECURSIVE MavenParseLoop(_, _, _)
MavenParseLoop(project, k, packages) ==
    IF k > Len(project.Dependencies) THEN packages
    ELSE
      LET dep == project.Dependencies[k]
          version == resolveProperty(dep.Version, project.Properties)
      IN  IF dep.GroupID = <<>> \/ dep.ArtifactID = <<>> \/ version = <<>>
          THEN MavenParseLoop(project, k + 1, packages)
          ELSE MavenParseLoop(project, k + 1,
                 Append(packages,
                   [Name    |-> MavenName(dep.GroupID, dep.ArtifactID),
                    Version |-> version,
                    Direct  |-> TRUE,
                    Dev     |-> dep.Scope = "test"]))

MavenParser_Parse(content) ==
    IF ~content.exists THEN [err |-> <<"failed to read file: ">>, packages |-> <<>>]
    ELSE IF ~WellFormed(content) THEN [err |-> <<"failed to parse XML: ">>, packages |-> <<>>]
    ELSE [err |-> NoErr, packages |-> MavenParseLoop(PomUnmarshal(content), 1, <<>>)]

\* regexp (<dependency>\s*<groupId>G</groupId>\s*<artifactId>A</artifactId>\s*<version>)OLD(</version>)
\* with ReplaceAllString, on the raw text
replaceDependencyVersion_AnyDependency(content, groupID, artifactID, oldVersion, newVersion) ==
    [content EXCEPT !.blocks =
        [i \in 1..Len(content.blocks) |->
            LET b == content.blocks[i]
            IN  IF b.layout = "gav" /\ b.version = oldVersion /\ oldVersion # <<>>
                THEN [b EXCEPT !.version = <<newVersion>>]
                ELSE b]]

replaceDependencyVersion(content, groupID, artifactID, oldVersion, newVersion) ==
    [content EXCEPT !.blocks =
        [i \in 1..Len(content.blocks) |->
            LET b == content.blocks[i]
            IN  IF /\ b.layout = "gav"
                   /\ b.groupId = groupID
                   /\ b.artifactId = artifactID
                   /\ b.version = oldVersion
                   /\ oldVersion # <<>>
                THEN [b EXCEPT !.version = <<newVersion>>]
                ELSE b]]

\* regexp (<PROP>)[^<]*(</[^>]*>) with ReplaceAllString, on the raw text:
\* every element of that name in the file, inside <properties> or not
replacePropertyValue(content, propName, newVersion) ==
    [content EXCEPT
       !.properties =
          [i \in 1..Len(content.properties) |->
              IF <<content.properties[i].name>> = propName
              THEN [content.properties[i] EXCEPT !.value = <<newVersion>>]
              ELSE content.properties[i]],
       !.others =
          [i \in 1..Len(content.others) |->
              IF <<content.others[i].name>> = propName
              THEN [content.others[i] EXCEPT !.value = <<newVersion>>]
              ELSE content.others[i]],
       !.blocks =
          [i \in 1..Len(content.blocks) |->
              LET b == content.blocks[i]
              IN  [b EXCEPT
                     !.groupId = IF propName = <<"groupId">> /\ b.groupId # <<>>
                                 THEN <<newVersion>> ELSE b.groupId,
                     !.artifactId = IF propName = <<"artifactId">> /\ b.artifactId # <<>>
                                    THEN <<newVersion>> ELSE b.artifactId,
                     !.version = IF propName = <<"version">> /\ b.version # <<>>
                                 THEN <<newVersion>> ELSE b.version]]]

\* the loop of Update over the dependencies of the parsed project
RECURSIVE MavenUpdateLoop(_, _, _, _)
MavenUpdateLoop(project, updates, k, updatedContent) ==
    IF k > Len(project.Dependencies) THEN updatedContent
    ELSE
      LET dep == project.Dependencies[k]
          name == MavenName(dep.GroupID, dep.ArtifactID)
          oldVersion == dep.Version
          propName == TrimSuffix(TrimPrefix(oldVersion, <<"${">>), <<"}">>)
      IN  IF dep.GroupID = <<>> \/ dep.ArtifactID = <<>> \/ name \notin DOMAIN updates
          THEN MavenUpdateLoop(project, updates, k + 1, updatedContent)
          ELSE IF HasPrefix(oldVersion, <<"${">>)
          THEN IF propName \in DOMAIN project.Properties
               THEN MavenUpdateLoop(project, updates, k + 1,
                       replacePropertyValue(updatedContent, propName, updates[name]))
               ELSE MavenUpdateLoop(project, updates, k + 1, updatedContent)
          ELSE MavenUpdateLoop(project, updates, k + 1,
                  replaceDependencyVersion(updatedContent, dep.GroupID, dep.ArtifactID,
                                           oldVersion, updates[name]))

MavenParser_Update(content, updates) ==
    IF ~content.exists THEN [err |-> <<"failed to read file: ">>, content |-> content]
    ELSE IF ~WellFormed(content) THEN [err |-> <<"failed to parse XML: ">>, content |-> content]
    ELSE [err |-> NoErr,
          content |-> MavenUpdateLoop(PomUnmarshal(content), updates, 1, content)]

MavenParser_Validate(content) == WellFormed(content)

\* ------------------------------------------------------------------------
\* Root.io API client
\* ------------------------------------------------------------------------

\* the request Client.AnalyzePackages sends
Client_AnalyzePackages_Request(baseURL, apiKey, sdkPackages) ==
    [method   |-> "POST",
     url      |-> <<baseURL, "/v3/remediate/", "pypi">>,
     username |-> apiKey,
     password |-> "",
     packages |-> sdkPackages]

\* rootio.Package list built from the parsed or listed packages
ConvertToSDK(pkgs) ==
    [i \in 1..Len(pkgs) |-> [Name |-> pkgs[i].Name, Version |-> pkgs[i].Version]]

\* Run: fmt.Errorf("failed to analyze packages: %w", err)
AnalyzeError_DropCause(e) == <<"failed to analyze packages">>

AnalyzeError(e) == <<"failed to analyze packages: ">> \o e

\* the errors the HTTP call can end in
APIErrors ==
    {<<"failed to execute request: ">>, <<"API returned status ", "500">>}

\* ------------------------------------------------------------------------
\* State
\* ------------------------------------------------------------------------
VARIABLES
    app,             \* the orchestrator that runs: "pip", "npm", "maven"
    dryRun,          \* App.dryRun
    useAlias,        \* pip App.useAlias
    packageManager,  \* npm App.packageManager
    parser,          \* App.parser: the parser the App was built with
    cancelledAt,     \* <<>> while ctx is live; <<n>> once cancelled after n apply-side calls
    pc,              \* position of Run
    disk,            \* the files: lock file, package.json, pom.xml
    disk0,           \* the files when the run started
    env,             \* the Python environment: installed name -> version
    env0,            \* the environment when the run started
    packages,        \* the parsed or listed packages
    requests,        \* the HTTP requests sent so far
    apiErr,          \* the error AnalyzePackages returned, NoErr if none
    patches,         \* response.Patches
    idx,             \* loop index of pip applyPatches
    calls,           \* apply-side calls made so far, in order
    out,             \* lines printed so far
    err,             \* the error Run returned, NoErr if none
    pdoc,            \* parser harness: the file given to the parser
    pupdates,        \* parser harness: the updates map
    pfirst,          \* parser harness: result of Parse on pdoc
    pout,            \* parser harness: result of Update
    psecond,         \* parser harness: result of Parse on the Update output
    pstep            \* parser harness: position

orchVars == <<app, dryRun, useAlias, packageManager, parser, cancelledAt, pc, disk, disk0, env, env0,
              packages, requests, apiErr, patches, idx, calls, out, err>>

parserVars == <<pdoc, pupdates, pfirst, pout, psecond, pstep>>

vars == <<orchVars, parserVars>>

Apps == {"pip", "npm", "maven"}

\* ctx.Done() is closed: exec.CommandContext and http.NewRequestWithContext
\* return the context's error instead of doing their work
Cancelled == cancelledAt # <<>>

APIURL == "https://api.root.io"
APIKey == "key"

NoFile == [exists |-> FALSE, ok |-> FALSE]

Call(op, i, target, ok) == [op |-> op, idx |-> i, target |-> target, ok |-> ok]

Line(kind, pos, total, name, text) ==
    [kind |-> kind, pos |-> pos, total |-> total, name |-> name, text |-> text]

ApplySideOps ==
    {"ApplyPatch", "ApplyPatchForPip", "uninstall", "install", "upgrade",
     "Update", "Validate", "WriteFile"}

\* os.WriteFile truncates and writes: it succeeds, fails before touching the
\* file, or fails after truncating it
WriteOutcomes == {"written", "open failed", "write failed"}

\* ------------------------------------------------------------------------
\* Inputs of the pip orchestrator
\* ------------------------------------------------------------------------
PipNames == {<<"django">>, <<"pip">>, <<"PIP">>, <<"pipx">>}

PipPatchOf(n) ==
    [PackageName |-> n,
     Version     |-> "1",
     Patch       |-> [Name |-> n, Version |-> "2"],
     PatchAlias  |-> [Name |-> <<"rootio-">> \o n, Version |-> "2"]]

\* the analysis names each installed package at most once
PipPatchLists ==
    {ps \in SeqsUpTo({PipPatchOf(n) : n \in PipNames}, MaxPipPatches) :
        \A i, j \in 1..Len(ps) :
            EqualFold(ps[i].PackageName, ps[j].PackageName) => i = j}

PipListOrder == <<<<"django">>, <<"pip">>, <<"pipx">>>>

PipEnv0 == [n \in Range(PipListOrder) |-> "1"]

\* what a failed pip subprocess printed: it may or may not name the package
SubprocessOutputs(name) == {<<"ERROR">>, <<"ERROR: ">> \o name}

PKGURL == <<"https", "://", "pkg.root.io">>

\* constructIndexURL: <scheme>://root:<apiKey>@<host>/pypi/simple/
constructIndexURL(pkgURL, apiKey) ==
    <<pkgURL[1], "://", "root", ":", apiKey, "@", pkgURL[3], "/pypi/simple/">>

\* what a failed pip install printed: as any failed subprocess, or a line
\* that repeats the --index-url argument it was started with
InstallOutputs(name, indexURL) ==
    SubprocessOutputs(name) \cup {<<"ERROR: ", "Looking in indexes: ">> \o indexURL}

EnvRemove(e, n) == [m \in DOMAIN e \ {ToLower(n)} |-> e[m]]

EnvInstall(e, n, v) ==
    [m \in DOMAIN e \cup {ToLower(n)} |-> IF m = ToLower(n) THEN v ELSE e[m]]

\* ------------------------------------------------------------------------
\* pip orchestrator
\* ------------------------------------------------------------------------

\* Run, after the analysis answered with n patches
Pip_Run_Branch_IgnoreDryRun(n, dry) ==
    IF n = 0 THEN "NoPatches" ELSE "Apply"

Pip_Run_Branch_ApplyEmpty(n, dry) ==
    IF dry THEN "ReportOnly" ELSE "Apply"

Pip_Run_Branch(n, dry) ==
    IF n = 0 THEN "NoPatches" ELSE IF dry THEN "ReportOnly" ELSE "Apply"

\* PipService: the patch info selected by useAlias
PipPatchInfo(patch) == IF useAlias THEN patch.PatchAlias ELSE patch.Patch

\* Reporter.ReportDryRun
ReportDryRun(ps) ==
    [i \in 1..Len(ps) |-> Line("dry-run", i, Len(ps), ps[i].PackageName, <<>>)]

Pip_ListPackages ==
    /\ app = "pip" /\ pc = "ListPackages"
    /\ \/ /\ ~Cancelled
          /\ packages' = LET listed == SelectSeq(PipListOrder, LAMBDA n : n \in DOMAIN env)
                          IN  [i \in 1..Len(listed) |->
                                 [Name |-> listed[i], Version |-> env[listed[i]]]]
          /\ pc' = "Analyze"
          /\ err' = err
       \/ /\ err' = <<"failed to collect packages: ", "failed to run pip list: ">>
          /\ pc' = "Failed"
          /\ packages' = packages
    /\ UNCHANGED <<app, dryRun, useAlias, packageManager, parser, cancelledAt, disk, disk0, env, env0,
                   requests, apiErr, patches, idx, calls, out, parserVars>>

Pip_Analyze ==
    /\ app = "pip" /\ pc = "Analyze"
    /\ requests' = Append(requests,
                     Client_AnalyzePackages_Request(APIURL, APIKey, ConvertToSDK(packages)))
    /\ \/ \E e \in APIErrors :
            /\ apiErr' = e
            /\ err' = AnalyzeError(e)
            /\ pc' = "Failed"
            /\ UNCHANGED <<patches, idx, out>>
       \/ \E resp \in PipPatchLists :
            /\ ~Cancelled
            /\ patches' = resp
            /\ apiErr' = NoErr
            /\ LET branch == Pip_Run_Branch(Len(resp), dryRun)
               IN  /\ pc' = IF branch = "Apply" THEN "Apply" ELSE "Done"
                   /\ out' = CASE branch = "NoPatches" ->
                                    Append(out, Line("no patches", 0, 0, <<>>, <<>>))
                               [] branch = "ReportOnly" -> out \o ReportDryRun(resp)
                               [] OTHER -> Append(out, Line("applying", 0, Len(resp), <<>>, <<>>))
            /\ idx' = 1
            /\ err' = err
    /\ UNCHANGED <<app, dryRun, useAlias, packageManager, parser, cancelledAt, disk, disk0, env, env0,
                   packages, calls, parserVars>>

\* applyPatches: fmt.Printf("[%d/%d] Patching %s ...", i+1, len(patches), patch.PackageName)
Pip_ProgressLine_ZeroBased(i, ps) ==
    Line("patching", i - 1, Len(ps), ps[i].PackageName, <<>>)

Pip_ProgressLine(i, ps) ==
    Line("patching", i, Len(ps), ps[i].PackageName, <<>>)

\* applyPatches, head of the loop body: progress line, then dispatch
Pip_applyPatches_UsesPipHandler_NoFold(name) == name = <<"pip">>

Pip_applyPatches_UsesPipHandler(name) == EqualFold(name, <<"pip">>)

Pip_applyPatches_Dispatch ==
    /\ app = "pip" /\ pc = "Apply" /\ idx <= Len(patches)
    /\ LET patch == patches[idx]
           special == Pip_applyPatches_UsesPipHandler(patch.PackageName)
       IN  /\ out' = Append(out, Pip_ProgressLine(idx, patches))
           /\ calls' = Append(calls,
                         Call(IF special THEN "ApplyPatchForPip" ELSE "ApplyPatch",
                              idx, patch.PackageName, TRUE))
           /\ pc' = IF special THEN "Upgrade" ELSE "Uninstall"
    /\ UNCHANGED <<app, dryRun, useAlias, packageManager, parser, cancelledAt, disk, disk0, env, env0,
                   packages, requests, apiErr, patches, idx, err, parserVars>>

\* applyPatches, after the service call returned an error
Pip_applyPatches_Fail(serviceErr) ==
    /\ out' = Append(out, Line("patch failed", 0, 0, <<>>, serviceErr))
    /\ err' = <<"patch failed: ">> \o serviceErr
    /\ pc' = "Failed"
    /\ idx' = idx

\* applyPatches, after the service call returned nil; Run after the loop
Pip_applyPatches_Next_NoAdvance ==
    /\ idx' = idx
    /\ err' = err
    /\ pc' = "Apply"
    /\ out' = Append(out, Line("patched", 0, 0, patches[idx].PackageName, <<>>))

Pip_applyPatches_Next ==
    /\ idx' = idx + 1
    /\ err' = err
    /\ pc' = IF idx = Len(patches) THEN "Done" ELSE "Apply"
    /\ out' = IF idx = Len(patches)
              THEN out \o <<Line("patched", 0, 0, patches[idx].PackageName, <<>>),
                            Line("success", 0, Len(patches), <<>>, <<>>)>>
              ELSE Append(out, Line("patched", 0, 0, patches[idx].PackageName, <<>>))

\* PipService.ApplyPatch, step 1: pip uninstall -y <packageName>
PipService_ApplyPatch_Uninstall_IgnoreError ==
    /\ app = "pip" /\ pc = "Uninstall"
    /\ LET patch == patches[idx]
       IN  \/ /\ ~Cancelled
              /\ calls' = Append(calls, Call("uninstall", idx, patch.PackageName, TRUE))
              /\ env' = EnvRemove(env, patch.PackageName)
           \/ /\ calls' = Append(calls, Call("uninstall", idx, patch.PackageName, FALSE))
              /\ env' = env
    /\ pc' = "Install"
    /\ UNCHANGED <<app, dryRun, useAlias, packageManager, parser, cancelledAt, disk, disk0, env0,
                   packages, requests, apiErr, patches, out, err, idx, parserVars>>

PipService_ApplyPatch_Uninstall ==
    /\ app = "pip" /\ pc = "Uninstall"
    /\ LET patch == patches[idx]
       IN  \/ /\ ~Cancelled
              /\ calls' = Append(calls, Call("uninstall", idx, patch.PackageName, TRUE))
              /\ env' = EnvRemove(env, patch.PackageName)
              /\ pc' = "Install"
              /\ UNCHANGED <<out, err, idx>>
           \/ \E output \in SubprocessOutputs(patch.PackageName) :
              /\ calls' = Append(calls, Call("uninstall", idx, patch.PackageName, FALSE))
              /\ env' = env
              /\ Pip_applyPatches_Fail(<<"uninstall failed: ", "exit status 1", " (output: ">>
                                       \o output \o <<")">>)
    /\ UNCHANGED <<app, dryRun, useAlias, packageManager, parser, cancelledAt, disk, disk0, env0,
                   packages, requests, apiErr, patches, parserVars>>

\* PipService.ApplyPatch, step 3: pip install <name>==<version>
PipService_ApplyPatch_Install ==
    /\ app = "pip" /\ pc = "Install"
    /\ LET patch == patches[idx]
           patchInfo == PipPatchInfo(patch)
       IN  \/ /\ ~Cancelled
              /\ calls' = Append(calls, Call("install", idx, patchInfo.Name, TRUE))
              /\ env' = EnvInstall(env, patchInfo.Name, patchInfo.Version)
              /\ Pip_applyPatches_Next
           \/ \E output \in InstallOutputs(patchInfo.Name, constructIndexURL(PKGURL, APIKey)) :
              /\ calls' = Append(calls, Call("install", idx, patchInfo.Name, FALSE))
              /\ env' = env
              /\ Pip_applyPatches_Fail(<<"install failed: ", "exit status 1", " (output: ">>
                                       \o output \o <<")">>)
    /\ UNCHANGED <<app, dryRun, useAlias, packageManager, parser, cancelledAt, disk, disk0, env0,
                   packages, requests, apiErr, patches, parserVars>>

\* PipService.ApplyPatchForPip: pip install --upgrade <name>==<version>
PipService_ApplyPatchForPip ==
    /\ app = "pip" /\ pc = "Upgrade"
    /\ LET patch == patches[idx]
           patchInfo == PipPatchInfo(patch)
       IN  \/ /\ ~Cancelled
              /\ calls' = Append(calls, Call("upgrade", idx, patchInfo.Name, TRUE))
              /\ env' = EnvInstall(env, patchInfo.Name, patchInfo.Version)
              /\ Pip_applyPatches_Next
           \/ \E output \in InstallOutputs(patchInfo.Name, constructIndexURL(PKGURL, APIKey)) :
              /\ calls' = Append(calls, Call("upgrade", idx, patchInfo.Name, FALSE))
              /\ env' = env
              /\ Pip_applyPatches_Fail(<<"pip upgrade failed: ", "exit status 1", " (output: ">>
                                       \o output \o <<")">>)
    /\ UNCHANGED <<app, dryRun, useAlias, packageManager, parser, cancelledAt, disk, disk0, env0,
                   packages, requests, apiErr, patches, parserVars>>

\* ------------------------------------------------------------------------
\* Inputs of the npm orchestrator
\* ------------------------------------------------------------------------
LockEntry(version, resolved, dev, extra) ==
    [version |-> version, resolved |-> resolved, dev |-> dev,
     dependencies |-> {}, devDependencies |-> {}, extra |-> extra]

RootEntry(deps, devDeps) ==
    [version |-> Absent, resolved |-> <<>>, dev |-> FALSE,
     dependencies |-> deps, devDependencies |-> devDeps, extra |-> FALSE]

Lock(pkgs) == [exists |-> TRUE, ok |-> TRUE, packages |-> pkgs]

MalformedLock == [exists |-> TRUE, ok |-> FALSE, packages |-> EmptyFun]

PathA == <<"node_modules", "/", "a">>
PathB == <<"node_modules", "/", "b">>
PathAB == <<"node_modules", "/", "a", "/", "node_modules", "/", "b">>
PathScoped == <<"node_modules", "/", "@s", "/", "c">>
PathWorkspace == <<"packages", "/", "w">>

ResolvedURL(name, version) == <<"https://registry.npmjs.org/">> \o name \o <<"/-/">> \o name
                                 \o <<"-", version, ".tgz">>

\* the lock files of the orchestrator runs
RunLockFiles ==
    {NoFile,
     MalformedLock,
     Lock((<<>> :> RootEntry({<<"a">>}, {}))),
     Lock((<<>> :> RootEntry({<<"a">>}, {}))
          @@ (PathA :> LockEntry("1", ResolvedURL(<<"a">>, "1"), FALSE, TRUE))
          @@ (PathAB :> LockEntry("1", <<>>, TRUE, FALSE)))}

NoOverrides == [present |-> FALSE, map |-> EmptyFun]

NoPnpm == [present |-> FALSE, isObject |-> FALSE, other |-> FALSE, overrides |-> NoOverrides]

PackageJSON(deps, ov, res, pnpm) ==
    [exists |-> TRUE, ok |-> TRUE, dependencies |-> deps,
     overrides |-> ov, resolutions |-> res, pnpm |-> pnpm]

MalformedPackageJSON ==
    [exists |-> TRUE, ok |-> FALSE, dependencies |-> FALSE,
     overrides |-> NoOverrides, resolutions |-> NoOverrides, pnpm |-> NoPnpm]

OldOverrides == [present |-> TRUE, map |-> (<<"z">> :> <<"npm:", "@rootio/", "z", "@", "9">>)]

\* the package.json files of the orchestrator runs
RunPackageJSONs ==
    {NoFile,
     MalformedPackageJSON,
     PackageJSON(TRUE, NoOverrides, NoOverrides, NoPnpm),
     PackageJSON(TRUE, OldOverrides, OldOverrides,
                 [present |-> TRUE, isObject |-> TRUE, other |-> TRUE, overrides |-> OldOverrides]),
     PackageJSON(FALSE, NoOverrides, NoOverrides,
                 [present |-> TRUE, isObject |-> FALSE, other |-> FALSE, overrides |-> NoOverrides])}

NpmPatchTo(n, v) ==
    [PackageName |-> n,
     Version     |-> "1",
     Patch       |-> [Name |-> n, Version |-> v],
     PatchAlias  |-> [Name |-> <<"@rootio/">> \o n, Version |-> v]]

NpmPatchOf(n) == NpmPatchTo(n, "2")

\* a response can hold two patches for one package name: a lock file can
\* hold two versions of one package
NpmPatchLists ==
    SeqsUpTo({NpmPatchTo(n, v) : n \in {<<"a">>, <<"b">>}, v \in {"2", "3"}}, MaxPatches)

\* ------------------------------------------------------------------------
\* npm orchestrator
\* ------------------------------------------------------------------------

\* NewAppWithServices: the lock file of a package manager
LockFilePath(pm) ==
    CASE pm = "npm" -> <<"package-lock.json">>
      [] pm = "yarn" -> <<"yarn.lock">>
      [] pm = "pnpm" -> <<"pnpm-lock.yaml">>
      [] OTHER -> <<"package-lock.json">>

getOverrideField(pm) ==
    CASE pm = "yarn" -> "resolutions"
      [] pm = "npm" -> "overrides"
      [] pm = "pnpm" -> "overrides"
      [] OTHER -> "overrides"

\* Run, after Parse returned n packages: "No packages found" and return nil
Run_AfterParse_AnalyzeEmpty(n) == "Analyze"

Run_AfterParse(n) == IF n = 0 THEN "Done" ELSE "Analyze"

Npm_Run_Branch(n, dry) ==
    IF n = 0 THEN "NoPatches" ELSE IF dry THEN "ReportOnly" ELSE "Apply"

\* a map filled by a loop over the patches: a later patch overwrites
LastIndexOf(ps, name) ==
    CHOOSE i \in 1..Len(ps) :
        /\ ps[i].PackageName = name
        /\ \A j \in 1..Len(ps) : ps[j].PackageName = name => j <= i

\* applyPatches: overrides[patch.PackageName] = "npm:<alias name>@<alias version>"
Npm_BuildOverrides(ps) ==
    [n \in {ps[i].PackageName : i \in 1..Len(ps)} |->
        LET patch == ps[LastIndexOf(ps, n)]
        IN  <<"npm:">> \o patch.PatchAlias.Name \o <<"@", patch.PatchAlias.Version>>]

\* updatePackageJSON: the document after the override field is set
updatePackageJSON_Set_Merge(pkgJSON, overrides, pm) ==
    LET pnpmConfig == IF pkgJSON.pnpm.present /\ pkgJSON.pnpm.isObject
                      THEN pkgJSON.pnpm
                      ELSE [present |-> TRUE, isObject |-> TRUE, other |-> FALSE,
                            overrides |-> NoOverrides]
        old == IF pm = "pnpm" THEN pnpmConfig.overrides ELSE pkgJSON[getOverrideField(pm)]
        ov == [present |-> TRUE, map |-> overrides @@ old.map]
    IN  IF pm = "pnpm"
        THEN [pkgJSON EXCEPT !.pnpm = [pnpmConfig EXCEPT !.overrides = ov]]
        ELSE [pkgJSON EXCEPT ![getOverrideField(pm)] = ov]

updatePackageJSON_Set(pkgJSON, overrides, pm) ==
    LET ov == [present |-> TRUE, map |-> overrides]
    IN  IF pm = "pnpm"
        THEN LET pnpmConfig == IF pkgJSON.pnpm.present /\ pkgJSON.pnpm.isObject
                               THEN pkgJSON.pnpm
                               ELSE [present |-> TRUE, isObject |-> TRUE, other |-> FALSE,
                                     overrides |-> NoOverrides]
             IN  [pkgJSON EXCEPT !.pnpm = [pnpmConfig EXCEPT !.overrides = ov]]
        ELSE [pkgJSON EXCEPT ![getOverrideField(pm)] = ov]

LockPaths(content) == IF content.exists /\ content.ok THEN DOMAIN content.packages ELSE {}

\* NewApp builds the App with the parser of its ecosystem; NewAppWithServices
\* takes any common.Parser, and the tests of the npm App pass a MockParser
Parsers(a) ==
    CASE a = "npm" -> {"NpmParser", "MockParser"}
      [] a = "maven" -> {"MavenParser"}
      [] OTHER -> {"none"}

\* MockParser.Parse: what ParseFunc returns, an empty list without ParseFunc
MockParser_ParseResults ==
    {[err |-> NoErr, packages |-> <<>>],
     [err |-> NoErr,
      packages |-> <<[Name |-> <<"a">>, Version |-> "1", Direct |-> FALSE, Dev |-> FALSE]>>]}

\* a.parser.Parse(ctx, a.lockFilePath)
Npm_ParseResults ==
    IF parser = "MockParser" THEN MockParser_ParseResults
    ELSE {NpmParser_Parse(LockFilePath(packageManager), disk.lock, order) :
             order \in Orders(LockPaths(disk.lock))}

Npm_CheckSource ==
    /\ app = "npm" /\ pc = "CheckSource"
    /\ IF disk.lock.exists
       THEN pc' = "Parse" /\ err' = err
       ELSE pc' = "Failed" /\ err' = <<"lock file not found: ">> \o LockFilePath(packageManager)
    /\ UNCHANGED <<app, dryRun, useAlias, packageManager, parser, cancelledAt, disk, disk0, env, env0,
                   packages, requests, apiErr, patches, idx, calls, out, parserVars>>

Npm_Parse ==
    /\ app = "npm" /\ pc = "Parse"
    /\ \E r \in Npm_ParseResults :
             IF r.err # NoErr
             THEN /\ err' = <<"failed to parse ">> \o LockFilePath(packageManager) \o r.err
                  /\ pc' = "Failed"
                  /\ UNCHANGED <<packages, out>>
             ELSE IF Run_AfterParse(Len(r.packages)) = "Done"
             THEN /\ out' = Append(out, Line("no packages", 0, 0, <<>>, <<>>))
                  /\ pc' = "Done"
                  /\ UNCHANGED <<packages, err>>
             ELSE /\ packages' = r.packages
                  /\ pc' = "Analyze"
                  /\ UNCHANGED <<out, err>>
    /\ UNCHANGED <<app, dryRun, useAlias, packageManager, parser, cancelledAt, disk, disk0, env, env0,
                   requests, apiErr, patches, idx, calls, parserVars>>

Npm_Analyze ==
    /\ app = "npm" /\ pc = "Analyze"
    /\ requests' = Append(requests,
                     Client_AnalyzePackages_Request(APIURL, APIKey, ConvertToSDK(packages)))
    /\ \/ \E e \in APIErrors :
            /\ apiErr' = e
            /\ err' = AnalyzeError(e)
            /\ pc' = "Failed"
            /\ UNCHANGED <<patches, out>>
       \/ \E resp \in NpmPatchLists :
            /\ ~Cancelled
            /\ patches' = resp
            /\ apiErr' = NoErr
            /\ LET branch == Npm_Run_Branch(Len(resp), dryRun)
               IN  /\ pc' = IF branch = "Apply" THEN "Apply" ELSE "Done"
                   /\ out' = CASE branch = "NoPatches" ->
                                    Append(out, Line("no patches", 0, 0, <<>>, <<>>))
                               [] branch = "ReportOnly" -> out \o ReportDryRun(resp)
                               [] OTHER -> Append(out, Line("applying", 0, Len(resp), <<>>, <<>>))
            /\ err' = err
    /\ UNCHANGED <<app, dryRun, useAlias, packageManager, parser, cancelledAt, disk, disk0, env, env0,
                   packages, idx, calls, parserVars>>

\* applyPatches and updatePackageJSON
Npm_applyPatches ==
    /\ app = "npm" /\ pc = "Apply"
    /\ LET overrides == Npm_BuildOverrides(patches)
           failed(e) == /\ err' = <<"failed to update package.json: ">> \o e
                        /\ pc' = "Failed"
                        /\ out' = out
       IN  IF ~disk.pkgjson.exists
           THEN failed(<<"package.json not found in current directory">>)
                /\ UNCHANGED <<disk, calls>>
           ELSE IF ~disk.pkgjson.ok
           THEN failed(<<"failed to parse package.json: ">>) /\ UNCHANGED <<disk, calls>>
           ELSE \E w \in WriteOutcomes :
                  /\ calls' = Append(calls, Call("WriteFile", 0, <<"package.json">>, w = "written"))
                  /\ disk' = [disk EXCEPT !.pkgjson =
                                CASE w = "written" ->
                                       updatePackageJSON_Set(disk.pkgjson, overrides, packageManager)
                                  [] w = "open failed" -> disk.pkgjson
                                  [] OTHER -> [disk.pkgjson EXCEPT !.ok = FALSE]]
                  /\ IF w = "written"
                     THEN /\ pc' = "Done" /\ err' = err
                          /\ out' = Append(out, Line("success", 0, Len(patches), <<>>, <<>>))
                     ELSE failed(<<"failed to write package.json: ">>)
    /\ UNCHANGED <<app, dryRun, useAlias, packageManager, parser, cancelledAt, disk0, env, env0,
                   packages, requests, apiErr, patches, idx, parserVars>>

\* ------------------------------------------------------------------------
\* Inputs of the Maven orchestrator
\* ------------------------------------------------------------------------
Block(section, layout, g, a, v, scope) ==
    [section |-> section, layout |-> layout, groupId |-> g, artifactId |-> a,
     version |-> v, scope |-> scope]

PomWith(props, blocks, others) ==
    [exists |-> TRUE, ok |-> TRUE, root |-> "project", trailer |-> <<>>,
     properties |-> props, blocks |-> blocks, others |-> others]

Pom(props, blocks) == PomWith(props, blocks, <<>>)

MalformedPom ==
    [exists |-> TRUE, ok |-> FALSE, root |-> "project", trailer |-> <<>>,
     properties |-> <<>>, blocks |-> <<>>, others |-> <<>>]

PropRef(p) == <<"${", p, "}">>

G1A1 == MavenName(<<"g1">>, <<"a1">>)
G2A2 == MavenName(<<"g2">>, <<"a2">>)

\* the pom.xml files of the orchestrator runs
RunPoms ==
    {NoFile,
     MalformedPom,
     Pom(<<>>, <<>>),
     Pom(<<[name |-> "p1", value |-> <<"1">>]>>,
         <<Block("dependencies", "gav", <<"g1">>, <<"a1">>, <<"1">>, ""),
           Block("dependencies", "gav", <<"g2">>, <<"a2">>, PropRef("p1"), "test")>>),
     Pom(<<>>,
         <<Block("dependencies", "other", <<"g1">>, <<"a1">>, <<"1">>, ""),
           Block("dependencies", "gav", <<"g2">>, <<"a2">>, <<"1">>, "")>>)}

MavenPatchOf(n, v) ==
    [PackageName |-> n,
     Version     |-> "1",
     Patch       |-> [Name |-> n, Version |-> v],
     PatchAlias  |-> [Name |-> n, Version |-> v]]

\* "<" stands for a version text that is not XML character data
MavenPatchLists ==
    SeqsUpTo({MavenPatchOf(n, v) : n \in {G1A1, G2A2}, v \in {"2", "<"}}, MaxPatches)

\* ------------------------------------------------------------------------
\* Maven orchestrator
\* ------------------------------------------------------------------------
Maven_Run_Branch(n, dry) ==
    IF n = 0 THEN "NoPatches" ELSE IF dry THEN "ReportOnly" ELSE "Apply"

\* applyPatches: updates[patch.PackageName] = patch.Patch.Version
Maven_BuildUpdates_FirstOnly(ps) ==
    [n \in {ps[1].PackageName} |-> ps[1].Patch.Version]

Maven_BuildUpdates(ps) ==
    [n \in {ps[i].PackageName : i \in 1..Len(ps)} |-> ps[LastIndexOf(ps, n)].Patch.Version]

Maven_CheckSource ==
    /\ app = "maven" /\ pc = "CheckSource"
    /\ IF disk.pom.exists
       THEN pc' = "Parse" /\ err' = err
       ELSE pc' = "Failed" /\ err' = <<"file not found: ", "pom.xml">>
    /\ UNCHANGED <<app, dryRun, useAlias, packageManager, parser, cancelledAt, disk, disk0, env, env0,
                   packages, requests, apiErr, patches, idx, calls, out, parserVars>>

Maven_Parse ==
    /\ app = "maven" /\ pc = "Parse"
    /\ LET r == MavenParser_Parse(disk.pom)
       IN  IF r.err # NoErr
           THEN /\ err' = <<"failed to parse ", "pom.xml">> \o r.err
                /\ pc' = "Failed"
                /\ UNCHANGED <<packages, out>>
           ELSE IF Run_AfterParse(Len(r.packages)) = "Done"
           THEN /\ out' = Append(out, Line("no packages", 0, 0, <<>>, <<>>))
                /\ pc' = "Done"
                /\ UNCHANGED <<packages, err>>
           ELSE /\ packages' = r.packages
                /\ pc' = "Analyze"
                /\ UNCHANGED <<out, err>>
    /\ UNCHANGED <<app, dryRun, useAlias, packageManager, parser, cancelledAt, disk, disk0, env, env0,
                   requests, apiErr, patches, idx, calls, parserVars>>

Maven_Analyze ==
    /\ app = "maven" /\ pc = "Analyze"
    /\ requests' = Append(requests,
                     Client_AnalyzePackages_Request(APIURL, APIKey, ConvertToSDK(packages)))
    /\ \/ \E e \in APIErrors :
            /\ apiErr' = e
            /\ err' = AnalyzeError(e)
            /\ pc' = "Failed"
            /\ UNCHANGED <<patches, out>>
       \/ \E resp \in MavenPatchLists :
            /\ ~Cancelled
            /\ patches' = resp
            /\ apiErr' = NoErr
            /\ LET branch == Maven_Run_Branch(Len(resp), dryRun)
               IN  /\ pc' = IF branch = "Apply" THEN "Apply" ELSE "Done"
                   /\ out' = CASE branch = "NoPatches" ->
                                    Append(out, Line("no patches", 0, 0, <<>>, <<>>))
                               [] branch = "ReportOnly" -> out \o ReportDryRun(resp)
                               [] OTHER -> Append(out, Line("applying", 0, Len(resp), <<>>, <<>>))
            /\ err' = err
    /\ UNCHANGED <<app, dryRun, useAlias, packageManager, parser, cancelledAt, disk, disk0, env, env0,
                   packages, idx, calls, parserVars>>

\* applyPatches: Update, then Validate, then os.WriteFile
Maven_applyPatches ==
    /\ app = "maven" /\ pc = "Apply"
    /\ LET updates == Maven_BuildUpdates(patches)
           r == MavenParser_Update(disk.pom, updates)
           valid == MavenParser_Validate(r.content)
           pomxml == <<"pom.xml">>
       IN  IF r.err # NoErr
           THEN /\ calls' = Append(calls, Call("Update", 0, pomxml, FALSE))
                /\ err' = <<"failed to update file: ">> \o r.err
                /\ pc' = "Failed"
                /\ UNCHANGED <<disk, out>>
           ELSE IF ~valid
           THEN /\ calls' = calls \o <<Call("Update", 0, pomxml, TRUE),
                                       Call("Validate", 0, pomxml, FALSE)>>
                /\ err' = <<"updated file content is invalid">>
                /\ pc' = "Failed"
                /\ UNCHANGED <<disk, out>>
           ELSE \E w \in WriteOutcomes :
                  /\ calls' = calls \o <<Call("Update", 0, pomxml, TRUE),
                                         Call("Validate", 0, pomxml, TRUE),
                                         Call("WriteFile", 0, pomxml, w = "written")>>
                  /\ disk' = [disk EXCEPT !.pom =
                                CASE w = "written" -> r.content
                                  [] w = "open failed" -> disk.pom
                                  [] OTHER -> [disk.pom EXCEPT !.ok = FALSE]]
                  /\ IF w = "written"
                     THEN /\ pc' = "Done" /\ err' = err
                          /\ out' = Append(out, Line("success", 0, Len(patches), <<>>, <<>>))
                     ELSE /\ pc' = "Failed"
                          /\ err' = <<"failed to write updated file: ">>
                          /\ out' = out
    /\ UNCHANGED <<app, dryRun, useAlias, packageManager, parser, cancelledAt, disk0, env, env0,
                   packages, requests, apiErr, patches, idx, parserVars>>

\* ------------------------------------------------------------------------
\* The orchestrator runs
\* ------------------------------------------------------------------------
ParserIdle ==
    /\ pdoc = NoFile /\ pupdates = EmptyFun /\ pfirst = <<>> /\ pout = NoFile
    /\ psecond = <<>> /\ pstep = "idle"

\* main.run: signal.NotifyContext cancels ctx when the interrupt arrives,
\* at any point before Run returns
Interrupt ==
    /\ ~Cancelled
    /\ app \in Apps /\ pc \notin {"Done", "Failed"}
    /\ cancelledAt' = <<Len(calls)>>
    /\ UNCHANGED <<app, dryRun, useAlias, packageManager, parser, pc, disk, disk0, env, env0,
                   packages, requests, apiErr, patches, idx, calls, out, err, parserVars>>

Init ==
    /\ app \in Apps
    /\ dryRun \in BOOLEAN
    /\ useAlias \in (IF app = "pip" THEN BOOLEAN ELSE {TRUE})
    /\ packageManager \in (IF app = "npm" THEN {"npm", "yarn", "pnpm"} ELSE {"npm"})
    /\ parser \in Parsers(app)
    /\ cancelledAt = <<>>
    /\ pc = (IF app = "pip" THEN "ListPackages" ELSE "CheckSource")
    /\ disk \in [lock    : IF app = "npm" THEN RunLockFiles ELSE {NoFile},
                 pkgjson : IF app = "npm" THEN RunPackageJSONs ELSE {NoFile},
                 pom     : IF app = "maven" THEN RunPoms ELSE {NoFile}]
    /\ disk0 = disk
    /\ env \in (IF app = "pip" THEN {PipEnv0, EmptyFun} ELSE {EmptyFun})
    /\ env0 = env
    /\ packages = <<>>
    /\ requests = <<>>
    /\ apiErr = NoErr
    /\ patches = <<>>
    /\ idx = 0
    /\ calls = <<>>
    /\ out = <<>>
    /\ err = NoErr
    /\ ParserIdle

Next ==
    \/ Interrupt
    \/ Pip_ListPackages
    \/ Pip_Analyze
    \/ Pip_applyPatches_Dispatch
    \/ PipService_ApplyPatch_Uninstall
    \/ PipService_ApplyPatch_Install
    \/ PipService_ApplyPatchForPip
    \/ Npm_CheckSource
    \/ Npm_Parse
    \/ Npm_Analyze
    \/ Npm_applyPatches
    \/ Maven_CheckSource
    \/ Maven_Parse
    \/ Maven_Analyze
    \/ Maven_applyPatches

Spec == Init /\ [][Next]_vars

\* ------------------------------------------------------------------------
\* The parsers on their own: Parse, then Update, then Parse of the output
\* ------------------------------------------------------------------------
OrchIdle ==
    /\ app = "none" /\ dryRun = FALSE /\ useAlias = FALSE /\ packageManager = "npm"
    /\ parser = "none" /\ cancelledAt = <<>>
    /\ pc = "idle"
    /\ disk = [lock |-> NoFile, pkgjson |-> NoFile, pom |-> NoFile]
    /\ disk0 = disk
    /\ env = EmptyFun /\ env0 = EmptyFun
    /\ packages = <<>> /\ requests = <<>> /\ apiErr = NoErr /\ patches = <<>>
    /\ idx = 0 /\ calls = <<>> /\ out = <<>> /\ err = NoErr

Names(pkgs) == {pkgs[i].Name : i \in 1..Len(pkgs)}

\* the versions an update asks for
NewVersions == {"2", "3"}

\* every map from a subset of the names to a new version
UpdateMaps(names) == UNION {[S -> NewVersions] : S \in SUBSET names}

\* ---- npm ----
LockPathUniverse == {PathA, PathB, PathAB, PathScoped, PathWorkspace}

\* the lock entries at a path: without version, with an empty version, with
\* and without a resolved URL, dev marker and fields the parser does not know
LockEntriesAt(path) ==
    LET name == extractPackageName(path)
    IN  {LockEntry(Absent, <<>>, FALSE, FALSE),
         LockEntry("", <<>>, FALSE, TRUE),
         LockEntry("1", ResolvedURL(name, "1"), FALSE, TRUE),
         LockEntry("1", <<>>, TRUE, FALSE),
         LockEntry("2", ResolvedURL(name, "2"), TRUE, FALSE)}

LockRoots ==
    {EmptyFun,
     (<<>> :> RootEntry({<<"a">>}, {})),
     (<<>> :> RootEntry({<<"b">>}, {<<"a">>}))}

\* the package-lock.json files with at most MaxLockEntries of the paths
LockFilesOver(paths) ==
    {Lock(root @@ pkgs) :
        root \in LockRoots,
        pkgs \in UNION {{f \in [P -> UNION {LockEntriesAt(q) : q \in P}] :
                              \A q \in P : f[q] \in LockEntriesAt(q)} :
                           P \in {Q \in SUBSET paths : Cardinality(Q) <= MaxLockEntries}}}

\* the package-lock.json files given to the parser
ParserLockFiles == LockFilesOver(LockPathUniverse)

PackageLockJSONPath == <<"package-lock.json">>

NpmHarness_Parse ==
    /\ pstep = "npm parse"
    /\ \E order \in Orders(LockPaths(pdoc)) :
         pfirst' = NpmParser_Parse(PackageLockJSONPath, pdoc, order)
    /\ pstep' = "npm update"
    /\ UNCHANGED <<pdoc, pupdates, pout, psecond, orchVars>>

NpmHarness_Update ==
    /\ pstep = "npm update"
    /\ \E u \in UpdateMaps({extractPackageName(q) : q \in LockPaths(pdoc) \ {<<>>}}) :
         /\ pupdates' = u
         /\ pout' = NpmParser_Update(pdoc, u)
    /\ pstep' = "npm reparse"
    /\ UNCHANGED <<pdoc, pfirst, psecond, orchVars>>

NpmHarness_Reparse ==
    /\ pstep = "npm reparse"
    /\ \E order \in Orders(LockPaths(pout.content)) :
         psecond' = NpmParser_Parse(PackageLockJSONPath, pout.content, order)
    /\ pstep' = "done"
    /\ UNCHANGED <<pdoc, pupdates, pfirst, pout, orchVars>>

InitNpmParser ==
    /\ OrchIdle
    /\ pdoc \in ParserLockFiles \cup {MalformedLock}
    /\ pupdates = EmptyFun /\ pfirst = <<>> /\ pout = NoFile /\ psecond = <<>>
    /\ pstep = "npm parse"

NextNpmParser == NpmHarness_Parse \/ NpmHarness_Update \/ NpmHarness_Reparse

SpecNpmParser == InitNpmParser /\ [][NextNpmParser]_vars

\* ---- Maven ----
PomBlockUniverse ==
    {Block(section, layout, ga[1], ga[2], v, IF ga[1] = <<"g2">> THEN "test" ELSE "") :
        section \in {"dependencies", "dependencyManagement"},
        layout \in {"gav", "other"},
        ga \in {<<<<"g1">>, <<"a1">>>>, <<<<"g2">>, <<"a2">>>>},
        v \in {<<"1">>, <<"2">>, PropRef("p1")}}

PomPropertyLists == {<<>>, <<[name |-> "p1", value |-> <<"1">>]>>}

\* elements outside <properties> and outside the dependency blocks: none,
\* or an element <p1> of a profile
PomOtherLists == {<<>>, <<[name |-> "p1", value |-> <<"1">>]>>}

\* the pom.xml files given to the parser
ParserPoms ==
    {PomWith(props, blocks, others) :
        props \in PomPropertyLists,
        blocks \in SeqsUpTo(PomBlockUniverse, MaxPomBlocks),
        others \in PomOtherLists}

MavenHarness_Parse ==
    /\ pstep = "maven parse"
    /\ pfirst' = MavenParser_Parse(pdoc)
    /\ pstep' = "maven update"
    /\ UNCHANGED <<pdoc, pupdates, pout, psecond, orchVars>>

MavenHarness_Update ==
    /\ pstep = "maven update"
    /\ \E u \in UpdateMaps({G1A1, G2A2}) :
         /\ pupdates' = u
         /\ pout' = MavenParser_Update(pdoc, u)
    /\ pstep' = "maven reparse"
    /\ UNCHANGED <<pdoc, pfirst, psecond, orchVars>>

MavenHarness_Reparse ==
    /\ pstep = "maven reparse"
    /\ psecond' = MavenParser_Parse(pout.content)
    /\ pstep' = "done"
    /\ UNCHANGED <<pdoc, pupdates, pfirst, pout, orchVars>>

InitMavenParser ==
    /\ OrchIdle
    /\ pdoc \in ParserPoms \cup {MalformedPom}
    /\ pupdates = EmptyFun /\ pfirst = <<>> /\ pout = NoFile /\ psecond = <<>>
    /\ pstep = "maven parse"

NextMavenParser == MavenHarness_Parse \/ MavenHarness_Update \/ MavenHarness_Reparse

SpecMavenParser == InitMavenParser /\ [][NextMavenParser]_vars

\* ------------------------------------------------------------------------
\* Properties
\* ------------------------------------------------------------------------
NoMutation == calls = <<>> /\ disk = disk0 /\ env = env0

\* the calls of the pip service for patch j, as positions in the call log
Attempts(j) ==
    {i \in 1..Len(calls) : calls[i].op \in {"ApplyPatch", "ApplyPatchForPip"} /\ calls[i].idx = j}

PipApplyFailed == app = "pip" /\ pc = "Failed" /\ HasPrefix(err, <<"patch failed: ">>)

\* patch j has taken effect in the Python environment
PipApplied(j) ==
    LET patch == patches[j]
        patchInfo == PipPatchInfo(patch)
    IN  /\ ToLower(patchInfo.Name) \in DOMAIN env
        /\ env[ToLower(patchInfo.Name)] = patchInfo.Version
        /\ (~EqualFold(patch.PackageName, <<"pip">>)
              /\ ~EqualFold(patch.PackageName, patchInfo.Name))
           => ToLower(patch.PackageName) \notin DOMAIN env

\* C1: in a dry run no apply-side call is ever made (ApplyPatch,
\* ApplyPatchForPip, Update, the file write) and the files and the Python
\* environment are what they were at the start, whatever the patch list and
\* however the run ends.
C1_DryRunNeverMutates ==
    dryRun => /\ \A i \in 1..Len(calls) : calls[i].op \notin ApplySideOps
              /\ disk = disk0
              /\ env = env0

C1_Witness ==
    /\ dryRun /\ pc = "Done" /\ Len(patches) > 0
    /\ \E i \in 1..Len(out) : out[i].kind = "dry-run"

\* C2: when the apply of patch k fails in a pip run, every patch before k
\* was attempted exactly once and is in effect, no patch after k was
\* attempted, no patch was attempted twice, and Run returned an error.
C2_SequentialApplyStopsAtFailure ==
    /\ (app = "pip") => \A j \in 1..Len(patches) : Cardinality(Attempts(j)) <= 1
    /\ PipApplyFailed =>
          /\ ~dryRun
          /\ err # NoErr
          /\ Cardinality(Attempts(idx)) = 1
          /\ \A j \in 1..(idx - 1) : Cardinality(Attempts(j)) = 1 /\ PipApplied(j)
          /\ \A j \in (idx + 1)..Len(patches) : Attempts(j) = {}

C2_Witness ==
    /\ PipApplyFailed /\ idx = 2 /\ Len(patches) = 3
    /\ PipApplied(1) /\ Attempts(3) = {}

\* C3 as stated: the error Run returns for a failed patch k names the
\* package of patch k and its position [k/N].
PositionText(k, n) == <<"[", ToString(k), "/", ToString(n), "]">>

C4_PipRoutesThroughUpgrade ==
    (app = "pip") =>
        \A i \in 1..Len(calls) :
            LET c == calls[i]
                isPip == ToLower(patches[c.idx].PackageName) = <<"pip">>
            IN  /\ (c.op = "ApplyPatchForPip") => isPip
                /\ (c.op = "ApplyPatch") => ~isPip
                /\ (c.op = "upgrade") => isPip
                /\ (c.op \in {"uninstall", "install"}) => ~isPip
                /\ \A j \in 1..Len(calls) :
                      (calls[j].idx = c.idx /\ c.op = "ApplyPatchForPip") => calls[j].op # "ApplyPatch"

C4_Witness ==
    /\ app = "pip" /\ ~useAlias /\ pc = "Done"
    /\ \E i \in 1..Len(calls) :
          calls[i].op = "upgrade" /\ patches[calls[i].idx].PackageName = <<"PIP">>
    /\ \E i \in 1..Len(calls) : calls[i].op = "install"

\* C5 as stated: in the npm and Maven runs a file is written only after
\* Validate returned true for the new content, and a run whose validation
\* failed ends in an error with the files unchanged.
C5_WriteOnlyAfterValidate ==
    /\ \A i \in 1..Len(calls) :
          calls[i].op = "WriteFile" =>
              \E j \in 1..(i - 1) : calls[j].op = "Validate" /\ calls[j].ok
    /\ \A i \in 1..Len(calls) :
          (calls[i].op = "Validate" /\ ~calls[i].ok) => (pc = "Failed" /\ disk = disk0)

\* C6: when AnalyzePackages returns an error, the run has failed with that
\* error wrapped, and nothing was or is mutated.
C6_AnalysisErrorAbortsBeforeMutation ==
    apiErr # NoErr =>
        /\ pc = "Failed"
        /\ err = <<"failed to analyze packages: ">> \o apiErr
        /\ NoMutation

C6_Witness ==
    /\ apiErr # NoErr /\ ~dryRun /\ app = "maven" /\ pc = "Failed"

\* C7: when the analysis answers with no patches, the run has ended in
\* success and nothing was mutated, in a dry run or not.
C7_NoPatchesIsSuccessfulNoOp ==
    (requests # <<>> /\ apiErr = NoErr /\ patches = <<>>) =>
        /\ pc = "Done"
        /\ err = NoErr
        /\ NoMutation

C7_Witness ==
    /\ requests # <<>> /\ apiErr = NoErr /\ patches = <<>> /\ ~dryRun /\ pc = "Done"

\* common.Ecosystem of the orchestrator
Ecosystem(a) ==
    CASE a = "pip" -> "pypi"
      [] a = "npm" -> "npm"
      [] a = "maven" -> "maven"
      [] OTHER -> "none"

\* C8 as stated: every analysis request is a POST to
\* {baseURL}/v3/remediate/{ecosystem of the orchestrator}.
C8_RequestGoesToOwnEcosystem ==
    \A i \in 1..Len(requests) :
        /\ requests[i].method = "POST"
        /\ requests[i].url = <<APIURL, "/v3/remediate/", Ecosystem(app)>>

\* C9: npm round trip: when Update is given a new version for exactly the
\* names Parse emitted, Parse of the Update output emits the same names,
\* each with the version asked for.
C9_NpmRoundTrip ==
    (pstep = "done" /\ pfirst.err = NoErr /\ DOMAIN pupdates = Names(pfirst.packages)) =>
        /\ pout.err = NoErr
        /\ psecond.err = NoErr
        /\ Names(psecond.packages) = Names(pfirst.packages)
        /\ \A i \in 1..Len(psecond.packages) :
              psecond.packages[i].Version = pupdates[psecond.packages[i].Name]

C9_Witness ==
    /\ pstep = "done" /\ pfirst.err = NoErr /\ DOMAIN pupdates = Names(pfirst.packages)
    /\ Len(pfirst.packages) = 2
    /\ Names(pfirst.packages) = {<<"b">>}
    /\ \A i \in 1..Len(pfirst.packages) :
          pfirst.packages[i].Version # pupdates[pfirst.packages[i].Name]
    /\ Len(psecond.packages) = 1

\* the blocks of pdoc that Update was asked to change and whose version is
\* a direct literal
MavenUpdateDone == pstep \in {"maven reparse", "done"} /\ pout.err = NoErr

BlockName(b) == MavenName(b.groupId, b.artifactId)

DirectLiteralTarget(b) ==
    /\ b.section = "dependencies"
    /\ BlockName(b) \in DOMAIN pupdates
    /\ b.version # <<>> /\ ~HasPrefix(b.version, <<"${">>)

\* C10 as stated: Update replaces the version of every targeted dependency
\* with a direct literal version, and leaves the version of every
\* dependency with another groupId:artifactId unchanged.
C10_DirectLiteralReplaced ==
    MavenUpdateDone =>
        \A i \in 1..Len(pdoc.blocks) :
            LET b == pdoc.blocks[i]
                b2 == pout.content.blocks[i]
            IN  /\ DirectLiteralTarget(b) => b2.version = <<pupdates[BlockName(b)]>>
                /\ BlockName(b) \notin DOMAIN pupdates => b2.version = b.version

\* C10 amended: the same, for targeted dependencies whose block has the
\* children groupId, artifactId, version in this order.
C10_DirectLiteralReplacedInOrder ==
    MavenUpdateDone =>
        /\ Len(pout.content.blocks) = Len(pdoc.blocks)
        /\ \A i \in 1..Len(pdoc.blocks) :
            LET b == pdoc.blocks[i]
                b2 == pout.content.blocks[i]
            IN  /\ (DirectLiteralTarget(b) /\ b.layout = "gav")
                      => b2.version = <<pupdates[BlockName(b)]>>
                /\ BlockName(b) \notin DOMAIN pupdates => b2.version = b.version

C10_Witness ==
    /\ MavenUpdateDone
    /\ Len(pdoc.blocks) = 2
    /\ DirectLiteralTarget(pdoc.blocks[1]) /\ pdoc.blocks[1].layout = "gav"
    /\ BlockName(pdoc.blocks[2]) \notin DOMAIN pupdates
    /\ pdoc.blocks[2].version = pdoc.blocks[1].version
    /\ pdoc.blocks[2].layout = "gav"
    /\ pout.content.blocks[1].version # pdoc.blocks[1].version
    /\ pout.content.blocks[2].version = pdoc.blocks[2].version

\* the property a version text ${p} refers to
PropNameOf(version) == TrimSuffix(TrimPrefix(version, <<"${">>), <<"}">>)

DefinedProps(content) == {<<content.properties[i].name>> : i \in 1..Len(content.properties)}

\* the blocks of pdoc that Update was asked to change and whose version is
\* a reference to a property that <properties> defines
PropertyTarget(b) ==
    /\ b.section = "dependencies"
    /\ BlockName(b) \in DOMAIN pupdates
    /\ HasPrefix(b.version, <<"${">>)
    /\ PropNameOf(b.version) \in DefinedProps(pdoc)

OnlyPropertyTargets ==
    /\ MavenUpdateDone
    /\ \E i \in 1..Len(pdoc.blocks) : PropertyTarget(pdoc.blocks[i])
    /\ \A i \in 1..Len(pdoc.blocks) :
          (pdoc.blocks[i].section = "dependencies" /\ BlockName(pdoc.blocks[i]) \in DOMAIN pupdates)
             => PropertyTarget(pdoc.blocks[i])

\* the new versions asked for the dependencies that refer to property p
RequestedFor(p) ==
    {<<pupdates[BlockName(pdoc.blocks[i])]>> :
        i \in {j \in 1..Len(pdoc.blocks) :
                  PropertyTarget(pdoc.blocks[j]) /\ PropNameOf(pdoc.blocks[j].version) = p}}

\* C11 as stated: when the targeted dependencies have a version ${p} with p
\* defined in <properties>, Update changes only the value of the elements p
\* inside <properties>: the dependency blocks, with their ${p} text, and
\* every other element of the document are unchanged.
C11_OnlyPropertyValueChanges ==
    OnlyPropertyTargets =>
        /\ pout.content.blocks = pdoc.blocks
        /\ pout.content.others = pdoc.others
        /\ Len(pout.content.properties) = Len(pdoc.properties)
        /\ \A i \in 1..Len(pdoc.properties) :
              LET p == pdoc.properties[i]
                  p2 == pout.content.properties[i]
              IN  /\ p2.name = p.name
                  /\ IF RequestedFor(<<p.name>>) # {}
                     THEN p2.value \in RequestedFor(<<p.name>>)
                     ELSE p2.value = p.value

\* ------------------------------------------------------------------------
\* Parse on its own, for both parsers
\* ------------------------------------------------------------------------

\* version texts: literals, a reference to p1, a reference without its
\* closing brace, a reference to a property nobody defines, no version
ParsePomVersions ==
    {<<"1">>, <<"2">>, PropRef("p1"), <<"${", "p1">>, PropRef("p9"), <<>>}

ParsePomBlockUniverse ==
    {Block(section, "gav", ga[1], ga[2], v, "") :
        section \in {"dependencies", "dependencyManagement"},
        ga \in {<<<<"g1">>, <<"a1">>>>, <<<<"g2">>, <<"a2">>>>, <<<<>>, <<"a1">>>>},
        v \in ParsePomVersions}

\* <properties>: none, p1, p1 with an empty value, p1 given twice
ParsePomPropertyLists ==
    {<<>>,
     <<[name |-> "p1", value |-> <<"1">>]>>,
     <<[name |-> "p1", value |-> <<>>]>>,
     <<[name |-> "p1", value |-> <<"1">>], [name |-> "p1", value |-> <<"2">>]>>}

ParsePoms ==
    {Pom(props, blocks) :
        props \in ParsePomPropertyLists,
        blocks \in SeqsUpTo(ParsePomBlockUniverse, MaxPomBlocks)}

\* "node_modules/": a path that gives an empty name
PathNoName == <<"node_modules", "/">>

ParseLockFiles == LockFilesOver(LockPathUniverse \cup {PathNoName})

InitParse ==
    /\ OrchIdle
    /\ \/ pstep = "npm parse" /\ pdoc \in ParseLockFiles \cup {MalformedLock}
       \/ pstep = "maven parse" /\ pdoc \in ParsePoms \cup {MalformedPom}
    /\ pupdates = EmptyFun /\ pfirst = <<>> /\ pout = NoFile /\ psecond = <<>>

NextParse == NpmHarness_Parse \/ MavenHarness_Parse

SpecParse == InitParse /\ [][NextParse]_vars

NpmParsed == pstep = "npm update"

MavenParsed == pstep = "maven update"

\* the version C12 describes for a version text
IsPropertyReference(v) == Len(v) = 3 /\ v[1] = "${" /\ v[3] = "}"

ClaimedVersion(v, content) ==
    IF IsPropertyReference(v) /\ <<v[2]>> \in DefinedProps(content)
    THEN PropertiesUnmarshalXML(content.properties)[<<v[2]>>]
    ELSE v

HasIdentity(b) == b.section = "dependencies" /\ b.groupId # <<>> /\ b.artifactId # <<>>

NonEmpty(v) == v # <<>>

\* C12 as stated: Parse never fails on a well-formed pom, and the versions
\* it emits are, in file order, those of the dependencies with groupId and
\* artifactId: the property value for a text ${p} with p defined, the text
\* itself for any other text, nothing when the result is empty.
C12_VersionResolution ==
    (MavenParsed /\ WellFormed(pdoc)) =>
        /\ pfirst.err = NoErr
        /\ LET ds == SelectSeq(pdoc.blocks, HasIdentity)
               vs == [i \in 1..Len(ds) |-> ClaimedVersion(ds[i].version, pdoc)]
           IN  SelectSeq(vs, NonEmpty)
                 = [i \in 1..Len(pfirst.packages) |-> pfirst.packages[i].Version]

\* ------------------------------------------------------------------------
\* extractPackageName on its own
\* ------------------------------------------------------------------------
PathTokens == {"node_modules", "/", "a", "@s"}

\* the keys of the "packages" object
LockEntryPaths == SeqsUpTo(PathTokens, MaxPathLen)

ExtractHarness_Extract ==
    /\ pstep = "extract"
    /\ pfirst' = extractPackageName(pdoc)
    /\ pstep' = "extracted"
    /\ UNCHANGED <<pdoc, pupdates, pout, psecond, orchVars>>

InitExtract ==
    /\ OrchIdle
    /\ pdoc \in LockEntryPaths
    /\ pupdates = EmptyFun /\ pfirst = <<>> /\ pout = NoFile /\ psecond = <<>>
    /\ pstep = "extract"

NextExtract == ExtractHarness_Extract

SpecExtract == InitExtract /\ [][NextExtract]_vars

\* the places of a path where "node_modules/" starts
NodeModulesAt(path) ==
    {i \in 1..(Len(path) - 1) : SubSeq(path, i, i + 1) = NodeModulesPrefix}

\* the text after the final "node_modules/" of a path that has one
AfterFinalNodeModules(path) ==
    LET last == CHOOSE i \in NodeModulesAt(path) : \A j \in NodeModulesAt(path) : j <= i
    IN  SubSeq(path, last + 2, Len(path))

\* C13 as stated: extractPackageName returns the text after the final
\* "node_modules/" of the path, and the empty text for the empty path.
C13_NameAfterFinalNodeModules ==
    pstep = "extracted" =>
        /\ pdoc = <<>> => pfirst = <<>>
        /\ NodeModulesAt(pdoc) # {} => pfirst = AfterFinalNodeModules(pdoc)

ParseSucceeded == (NpmParsed \/ MavenParsed) /\ pfirst.err = NoErr

\* the lock entries that carry a version
VersionedPaths(content) ==
    {p \in DOMAIN content.packages \ {<<>>} : content.packages[p].version \notin {Absent, ""}}

HasVersionText(b) == HasIdentity(b) /\ b.version # <<>>

\* C14: every entry a successful Parse returns has a name and a version,
\* and comes from a lock entry or a dependency that carries a version.
C14_NameAndVersionNonEmpty ==
    ParseSucceeded =>
        /\ \A i \in 1..Len(pfirst.packages) : pfirst.packages[i].Name # <<>>
        /\ NpmParsed =>
              \A i \in 1..Len(pfirst.packages) :
                 /\ pfirst.packages[i].Version \notin {Absent, ""}
                 /\ \E p \in VersionedPaths(pdoc) :
                       /\ extractPackageName(p) = pfirst.packages[i].Name
                       /\ pdoc.packages[p].version = pfirst.packages[i].Version
        /\ MavenParsed =>
              /\ \A i \in 1..Len(pfirst.packages) : pfirst.packages[i].Version # <<>>
              /\ Len(pfirst.packages) <= Len(SelectSeq(pdoc.blocks, HasVersionText))

C14_Witness ==
    /\ ParseSucceeded /\ NpmParsed
    /\ Len(pfirst.packages) = 1
    /\ Cardinality(DOMAIN pdoc.packages \ {<<>>}) = 2
    /\ PathNoName \in VersionedPaths(pdoc)
    /\ \E p \in DOMAIN pdoc.packages : pdoc.packages[p].version = Absent

\* the (name, version) pairs of a Parse result are pairwise different
NoDuplicatePairs(pkgs) ==
    \A i, j \in 1..Len(pkgs) :
        (pkgs[i].Name = pkgs[j].Name /\ pkgs[i].Version = pkgs[j].Version) => i = j

\* C15 as stated: in the result of one Parse, of the npm parser or of the
\* Maven parser, no two entries have the same name and version.
C15_NoDuplicatePairs ==
    ParseSucceeded => NoDuplicatePairs(pfirst.packages)

NpmUpdateDone == pstep \in {"npm reparse", "done"} /\ pout.err = NoErr

\* a version that is absent and a version that is empty are the same
\* entry content: omitempty writes neither
SameVersion(v, w) == v = w \/ {v, w} \subseteq {Absent, ""}

\* the fields of a lock entry other than version and resolved
SameOtherFields(e, e2) ==
    /\ e2.dev = e.dev
    /\ e2.dependencies = e.dependencies
    /\ e2.devDependencies = e.devDependencies
    /\ e2.extra = e.extra

\* C16 as stated: Update keeps every lock path; in an entry whose name is
\* a key of the updates it changes the version and, when the entry has a
\* resolved URL and an old version, the old version in that URL; every
\* other field of these entries, every other entry and the root entry
\* are as in the input.
C16_UpdateChangesOnlyVersionAndResolved ==
    NpmUpdateDone =>
        /\ DOMAIN pout.content.packages = DOMAIN pdoc.packages
        /\ \A p \in DOMAIN pdoc.packages :
              LET e == pdoc.packages[p]
                  e2 == pout.content.packages[p]
                  name == extractPackageName(p)
              IN  /\ SameOtherFields(e, e2)
                  /\ IF p # <<>> /\ name \in DOMAIN pupdates
                     THEN /\ e2.version = pupdates[name]
                          /\ e2.resolved =
                                IF e.resolved # <<>> /\ e.version \notin {Absent, ""}
                                THEN ReplaceFirst(e.resolved, e.version, pupdates[name])
                                ELSE e.resolved
                     ELSE /\ SameVersion(e2.version, e.version)
                          /\ e2.resolved = e.resolved

\* paths of lock files the parser does not read
UnsupportedLockPaths ==
    {<<"yarn.lock">>, <<"app", "/", "yarn.lock">>,
     <<"pnpm-lock.yaml">>, <<"app", "/", "pnpm-lock.yaml">>}

NotImplementedErrors ==
    {<<"yarn.lock parsing not yet implemented">>, <<"pnpm-lock.yaml parsing not yet implemented">>}

OverrideFieldOf(pkgJSON, pm) ==
    CASE pm = "npm" -> pkgJSON.overrides
      [] pm = "yarn" -> pkgJSON.resolutions
      [] pm = "pnpm" -> IF pkgJSON.pnpm.present /\ pkgJSON.pnpm.isObject
                        THEN pkgJSON.pnpm.overrides ELSE NoOverrides
      [] OTHER -> NoOverrides

AliasString(patch) == <<"npm:">> \o patch.PatchAlias.Name \o <<"@", patch.PatchAlias.Version>>

NpmApplied == app = "npm" /\ pc = "Done" /\ ~dryRun /\ patches # <<>>

\* C18: after a successful non-dry-run npm run with a non-empty patch list,
\* the override field of the package manager in package.json maps the
\* packageName of every patch to "npm:<patchAlias.name>@<patchAlias.version>"
\* of that patch.
C18_EveryPatchIsOverridden ==
    NpmApplied =>
        LET field == OverrideFieldOf(disk.pkgjson, packageManager)
        IN  /\ disk.pkgjson.exists /\ disk.pkgjson.ok
            /\ field.present
            /\ \A i \in 1..Len(patches) :
                  /\ patches[i].PackageName \in DOMAIN field.map
                  /\ field.map[patches[i].PackageName] = AliasString(patches[i])

\* the lock file records version v for the package called name
LockRecords(lock, name, v) ==
    /\ lock.exists /\ lock.ok
    /\ \E p \in DOMAIN lock.packages :
          extractPackageName(p) = name /\ lock.packages[p].version = v

\* the lock file holds the version text v in some entry
LockContains(lock, v) ==
    /\ lock.exists /\ lock.ok
    /\ \E p \in DOMAIN lock.packages : lock.packages[p].version = v

\* C19: after a successful non-dry-run npm run whose analysis returned a
\* patch of package P from version v to v', the lock file of the run has
\* been rewritten: it holds v' and no longer records version v for P.
C19_LockFileRewritten ==
    NpmApplied =>
        \A i \in 1..Len(patches) :
            /\ LockContains(disk.lock, patches[i].Patch.Version)
            /\ ~LockRecords(disk.lock, patches[i].PackageName, patches[i].Version)

\* ------------------------------------------------------------------------
\* Validate on its own: the parser is given a text and answers a boolean
\* ------------------------------------------------------------------------
ValidateBlockUniverse ==
    {Block("dependencies", "gav", <<"g1">>, <<"a1">>, <<"1">>, ""),
     Block("dependencies", "other", <<"g2">>, <<"a2">>, PropRef("p1"), "test"),
     Block("dependencyManagement", "gav", <<"g1">>, <<"a1">>, <<"<">>, "")}

\* text after the end tag of the first element: none, a newline, a second
\* element, an unclosed tag
Trailers == {<<>>, <<"\n">>, <<"<a/>">>, <<"<">>}

RootNames == {"project", "a"}

\* the empty string
EmptyText ==
    [exists |-> TRUE, ok |-> FALSE, root |-> "", trailer |-> <<>>,
     properties |-> <<>>, blocks |-> <<>>, others |-> <<>>]

\* a text cut before the end tag of its first element
Truncated(content) == [content EXCEPT !.ok = FALSE, !.trailer = <<>>]

ValidatePoms ==
    LET whole == {[PomWith(props, blocks, <<>>) EXCEPT !.root = r, !.trailer = t] :
                     props \in PomPropertyLists,
                     blocks \in SeqsUpTo(ValidateBlockUniverse, MaxPomBlocks),
                     r \in RootNames, t \in Trailers}
    IN  whole \cup {Truncated(c) : c \in whole} \cup {EmptyText}

ValidateLockFiles == LockFilesOver({PathA, PathScoped}) \cup {MalformedLock}

NpmHarness_Validate ==
    /\ pstep = "npm validate"
    /\ pfirst' = NpmParser_Validate(pdoc)
    /\ pstep' = "npm validated"
    /\ UNCHANGED <<pdoc, pupdates, pout, psecond, orchVars>>

MavenHarness_Validate ==
    /\ pstep = "maven validate"
    /\ pfirst' = MavenParser_Validate(pdoc)
    /\ pstep' = "maven validated"
    /\ UNCHANGED <<pdoc, pupdates, pout, psecond, orchVars>>

InitValidate ==
    /\ OrchIdle
    /\ \/ pstep = "npm validate" /\ pdoc \in ValidateLockFiles
       \/ pstep = "maven validate" /\ pdoc \in ValidatePoms
    /\ pupdates = EmptyFun /\ pfirst = <<>> /\ pout = NoFile /\ psecond = <<>>

NextValidate == NpmHarness_Validate \/ MavenHarness_Validate

SpecValidate == InitValidate /\ [][NextValidate]_vars

\* the text is JSON that decodes into PackageLockJSON
IsLockfileJSON(content) == content.ok

\* the text is a well-formed XML document: one closed first element whose
\* tags match, of any name, followed by white space at most
IsWellFormedXML(content) ==
    /\ content.ok
    /\ content.root # ""
    /\ Range(content.trailer) \subseteq {"\n"}
    /\ \A i \in 1..Len(content.properties) : "<" \notin Range(content.properties[i].value)
    /\ \A i \in 1..Len(content.blocks) : "<" \notin Range(content.blocks[i].version)
    /\ \A i \in 1..Len(content.others) : "<" \notin Range(content.others[i].value)

IsEmptyOrTruncated(content) == content.root = "" \/ ~content.ok

\* C20: Validate is exactly a syntactic well-formedness test: the npm
\* Validate answers true iff the text is JSON of the lockfile structure,
\* the Maven Validate answers true iff the text is well-formed XML, whatever
\* its elements are called, and both answer false on the empty string and
\* on truncated text.
C20_ValidateIsWellFormedness ==
    /\ pstep = "npm validated" => pfirst = IsLockfileJSON(pdoc)
    /\ pstep = "maven validated" => pfirst = IsWellFormedXML(pdoc)
    /\ (pstep = "npm validated" /\ pdoc = MalformedLock) => pfirst = FALSE
    /\ (pstep = "maven validated" /\ IsEmptyOrTruncated(pdoc)) => pfirst = FALSE

\* the dependency blocks of the pom that Update looks at and that carry
\* the name of the patch
TargetedBlocks(pom, patch) ==
    {i \in 1..Len(pom.blocks) :
        /\ pom.blocks[i].section = "dependencies"
        /\ MavenName(pom.blocks[i].groupId, pom.blocks[i].artifactId) = patch.PackageName}

\* a target whose children are not groupId, artifactId, version in a row
OutOfOrderTarget(pom, patch) ==
    \E i \in TargetedBlocks(pom, patch) :
        /\ pom.blocks[i].layout = "other"
        /\ ~HasPrefix(pom.blocks[i].version, <<"${">>)

MavenApplied == app = "maven" /\ pc = "Done" /\ ~dryRun /\ patches # <<>>

\* C21: when a targeted dependency has its children in another order than
\* groupId, artifactId, version, Update returns no error and leaves its
\* version unchanged, the Maven run does not fail for it, and the run
\* surfaces a warning naming the patch that changed nothing.
C21_OutOfOrderTargetWarned ==
    (app = "maven" /\ ~dryRun /\ pc \in {"Done", "Failed"} /\ Len(calls) > 0) =>
        \A i \in 1..Len(patches) :
            OutOfOrderTarget(disk0.pom, patches[i]) =>
                /\ calls[1] = Call("Update", 0, <<"pom.xml">>, TRUE)
                /\ \A b \in TargetedBlocks(disk0.pom, patches[i]) :
                      (disk.pom.ok /\ disk0.pom.blocks[b].layout = "other") =>
                          disk.pom.blocks[b].version = disk0.pom.blocks[b].version
                /\ MavenApplied =>
                      \E k \in 1..Len(out) :
                          out[k].kind = "warning" /\ out[k].name = patches[i].PackageName

\* the texts the run printed and the error text it returned
PrintedTexts == {out[i].text : i \in 1..Len(out)} \cup {err}

\* C22: the API key reaches no printed message and no error text.  The
\* texts are built from the key as a token, so two runs that differ only
\* in the key print the same texts exactly when no text holds that token.
C22_APIKeyNeverPrinted ==
    \A t \in PrintedTexts : APIKey \notin Range(t)

CallsAfterCancel == {i \in 1..Len(calls) : i > cancelledAt[1]}

\* C23: once the interrupt cancelled ctx, no apply-side mutation starts (no
\* pip command changes the environment, no Update and no file write is
\* done), and the run does not end in success.
C23_InterruptAbortsRun ==
    Cancelled =>
        /\ \A i \in CallsAfterCancel :
              /\ calls[i].op \notin {"Update", "WriteFile"}
              /\ calls[i].op \in {"uninstall", "install", "upgrade"} => ~calls[i].ok
        /\ pc # "Done"

\* Run got past its Parse step (pip: ListPackages) without an error
RunParsed ==
    \/ pc \in {"Analyze", "Apply", "Uninstall", "Install", "Upgrade", "Done"}
    \/ pc = "Failed" /\ requests # <<>>

RunEnded == pc \in {"Done", "Failed"}

PatchNames(ps) == {ps[i].PackageName : i \in 1..Len(ps)}

\* the maps from every patched name to a version some patch asks for it
MapsOfAllPatches(ps) ==
    {u \in [PatchNames(ps) -> {ps[i].Patch.Version : i \in 1..Len(ps)}] :
        \A n \in PatchNames(ps) :
            \E i \in 1..Len(ps) : ps[i].PackageName = n /\ ps[i].Patch.Version = u[n]}

WriteFileCalls == {i \in 1..Len(calls) : calls[i].op = "WriteFile"}

\* a file a failed os.WriteFile left behind
CutShort(file) == file.exists /\ ~file.ok

RootNames_Of(lock, field) ==
    IF <<>> \in DOMAIN lock.packages THEN lock.packages[<<>>][field] ELSE {}

\* the entries of the lock file a package can have been read from
EntriesOf(lock, pkg) ==
    {p \in DOMAIN lock.packages \ {<<>>} :
        extractPackageName(p) = pkg.Name /\ lock.packages[p].version = pkg.Version}

\* C26: npm Parse flags every package it emits by its extracted name:
\* direct iff the name is in the root entry's dependencies or
\* devDependencies, dev iff the name is in the root entry's devDependencies
\* or the lock entry it was read from carries dev = true; without a root
\* entry direct is false for all.
C26_DirectAndDevFlags ==
    (NpmParsed /\ pfirst.err = NoErr) =>
        \A i \in 1..Len(pfirst.packages) :
            LET pkg == pfirst.packages[i]
                deps == RootNames_Of(pdoc, "dependencies")
                devDeps == RootNames_Of(pdoc, "devDependencies")
            IN  /\ pkg.Direct = (pkg.Name \in deps \cup devDeps)
                /\ <<>> \notin DOMAIN pdoc.packages => ~pkg.Direct
                /\ EntriesOf(pdoc, pkg) # {}
                /\ \E p \in EntriesOf(pdoc, pkg) :
                      pkg.Dev = ((pkg.Name \in devDeps) \/ pdoc.packages[p].dev)
                /\ (\A p \in EntriesOf(pdoc, pkg) : ~pdoc.packages[p].dev) =>
                      pkg.Dev = (pkg.Name \in devDeps)

C26_Witness ==
    /\ NpmParsed /\ pfirst.err = NoErr
    /\ Len(pfirst.packages) = 2
    /\ \E i, j \in 1..2 :
          /\ pfirst.packages[i].Direct /\ pfirst.packages[i].Dev
          /\ \A p \in EntriesOf(pdoc, pfirst.packages[i]) : ~pdoc.packages[p].dev
          /\ ~pfirst.packages[j].Direct /\ pfirst.packages[j].Dev

\* C27: npm Parse is a function of the lock file content: every Parse of
\* the same file returns the same entries in the same order with the same
\* direct and dev flags.
C27_ParseIsDeterministic ==
    (NpmParsed /\ pfirst.err = NoErr) =>
        \A order \in Orders(LockPaths(pdoc)) :
            NpmParser_Parse(PackageLockJSONPath, pdoc, order) = pfirst

\* the versions a Parse result gives for the dependency called name, in order
VersionsOf(result, name) ==
    LET named == SelectSeq(result.packages, LAMBDA p : p.Name = name)
    IN  [i \in 1..Len(named) |-> named[i].Version]

MavenReparsed ==
    pstep = "done" /\ pfirst.err = NoErr /\ pout.err = NoErr /\ psecond.err = NoErr

\* C28: Maven Update changes the resolved version of the targeted
\* dependencies only: Parse of the Update output gives every dependency
\* whose groupId:artifactId is not a key of the updates map the version
\* Parse of the original file gave it, and gives every targeted dependency
\* the requested version.
C28_OnlyTargetedVersionsChange ==
    MavenReparsed =>
        \A name \in Names(pfirst.packages) \cup Names(psecond.packages) :
            IF name \in DOMAIN pupdates
            THEN \A v \in Range(VersionsOf(psecond, name)) : v = <<pupdates[name]>>
            ELSE VersionsOf(psecond, name) = VersionsOf(pfirst, name)

\* C29: ApplyPatch runs pip uninstall of the original packageName first and
\* pip install of the chosen name (patchAlias when useAlias, else patch)
\* only after that uninstall succeeded; a failed uninstall ends the run
\* with no install; a failed install ends the run with the original
\* package left uninstalled and no further pip call.
C29_UninstallBeforeInstall ==
    app = "pip" =>
        \A i \in 1..Len(calls) :
            LET c == calls[i]
                patch == patches[c.idx]
            IN  /\ c.op = "uninstall" =>
                      /\ c.target = patch.PackageName
                      /\ i > 1 /\ calls[i - 1] = Call("ApplyPatch", c.idx, patch.PackageName, TRUE)
                      /\ ~c.ok => (i = Len(calls) /\ pc = "Failed")
                /\ c.op = "install" =>
                      /\ i > 1 /\ calls[i - 1] = Call("uninstall", c.idx, patch.PackageName, TRUE)
                      /\ c.target = (IF useAlias THEN patch.PatchAlias.Name ELSE patch.Patch.Name)
                      /\ (c.ok /\ i = Len(calls)) =>
                            /\ ToLower(c.target) \in DOMAIN env
                            /\ env[ToLower(c.target)] =
                                  (IF useAlias THEN patch.PatchAlias.Version ELSE patch.Patch.Version)
                      /\ ~c.ok =>
                            /\ i = Len(calls) /\ pc = "Failed"
                            /\ ToLower(patch.PackageName) \notin DOMAIN env
                            /\ HasPrefix(err, <<"patch failed: ", "install failed: ">>)

C29_Witness ==
    /\ app = "pip" /\ pc = "Failed" /\ useAlias /\ Len(calls) >= 3
    /\ calls[Len(calls)].op = "install" /\ ~calls[Len(calls)].ok
    /\ calls[Len(calls) - 1].op = "uninstall" /\ calls[Len(calls) - 1].ok
    /\ ToLower(patches[idx].PackageName) \in DOMAIN env0
    /\ ToLower(patches[idx].PackageName) \notin DOMAIN env
    /\ ToLower(patches[idx].PatchAlias.Name) \notin DOMAIN env

NpmWrote ==
    /\ app = "npm" /\ Len(calls) > 0
    /\ calls[Len(calls)] = Call("WriteFile", 0, <<"package.json">>, TRUE)

\* C30: updatePackageJSON keeps the value of every top-level key of
\* package.json other than the override field (for pnpm: of every key
\* under "pnpm" other than "overrides") and sets the override field to
\* exactly the map built from the current patches: the overrides the file
\* held before are not kept.
C30_OverrideFieldReplacedOthersKept ==
    NpmWrote =>
        LET old == disk0.pkgjson
            new == disk.pkgjson
            field == OverrideFieldOf(new, packageManager)
        IN  /\ new.exists /\ new.ok
            /\ new.dependencies = old.dependencies
            /\ field.present
            /\ field.map = Npm_BuildOverrides(patches)
            /\ DOMAIN field.map = PatchNames(patches)
            /\ \A n \in DOMAIN OldOverrides.map : n \notin DOMAIN field.map
            /\ CASE packageManager = "npm" ->
                       new.resolutions = old.resolutions /\ new.pnpm = old.pnpm
                 [] packageManager = "yarn" ->
                       new.overrides = old.overrides /\ new.pnpm = old.pnpm
                 [] OTHER ->
                       /\ new.overrides = old.overrides /\ new.resolutions = old.resolutions
                       /\ new.pnpm.present /\ new.pnpm.isObject
                       /\ (old.pnpm.present /\ old.pnpm.isObject) =>
                             new.pnpm.other = old.pnpm.other

C30_Witness ==
    /\ NpmWrote /\ packageManager = "pnpm"
    /\ disk0.pkgjson.pnpm.present /\ disk0.pkgjson.pnpm.isObject /\ disk0.pkgjson.pnpm.other
    /\ disk0.pkgjson.pnpm.overrides = OldOverrides
    /\ disk.pkgjson.pnpm.other
    /\ disk.pkgjson.pnpm.overrides.map = Npm_BuildOverrides(patches)
    /\ disk.pkgjson.overrides = OldOverrides

====
